---- MODULE Spec2Model ----
(***************************************************************************)
(* A model of src/04_ml_analysis.py: main() as a straight-line pipeline.   *)
(* One action per block of main; library calls (read_csv, RFECV, RFE,      *)
(* LogisticRegression, DataFrame, sort_values, reindex, score) are         *)
(* modelled by what they return or raise.  The fitted numbers that depend  *)
(* on the data (selection mask, coefficients, number of correctly          *)
(* classified rows) are nondeterministic choices.                          *)
(*                                                                         *)
(* Units: a coefficient is an integer number of 1e-5, a weight and a score *)
(* an integer number of 1e-4 (four decimals), an error an exact fraction.  *)
(* Column names are integers; positions are 1-based, pandas index labels   *)
(* 0-based.                                                                *)
(***************************************************************************)
EXTENDS Integers, Sequences, FiniteSets, TLC

\* ------------------------------------------------------------- bounds
MaxCols == 3
MaxRows == 2

\* The inputs tried are wide and short, or narrow and long: a table of more
\* than two columns has at most one row.
InputShape(ncols, nrows) == ncols <= 2 \/ nrows <= 1

\* label column counts and class counts tried
LabelCols == {1, 2}
ClassCounts == {1, 2, 3}

\* values a fitted coefficient can take, in 1e-5
CoefValues == {-25, 6}

\* ------------------------------------------------------------- variables
VARIABLES
    pc,           \* position in main
    err,          \* "" or the message of the exception that ended the run
    X_train,      \* [cols: Seq(name), rows: Nat]
    y_train,      \* [ncols: Nat, rows: Nat, classes: Nat]
    X_test,
    y_test,
    support_,     \* rfe_cv.support_ : Seq(BOOLEAN), <<>> before the fit
    n_features_,  \* rfe_cv.n_features_
    X_train_sel,  \* column names of X_train.loc[:, support_]
    X_test_sel,
    lr_select,    \* [fitted: BOOLEAN, coef_: Seq(Seq(Int))]
    weight_df,    \* Seq([idx, Features, Weights])
    results,      \* Seq([Model, Score])
    i,            \* loop variable of the sweep
    max_dict,     \* [n_features_to_select: Seq, TrainingError: Seq, TestError: Seq]
    plot,         \* melted frame behind the chart, <<>> before it is built
    disp,         \* the model and columns the confusion matrix was drawn from
    files,        \* Seq([name, content]) written so far, in order
    log           \* history: the events of the run, in order

vars == <<pc, err, X_train, y_train, X_test, y_test, support_, n_features_,
          X_train_sel, X_test_sel, lr_select, weight_df, results, i, max_dict,
          plot, disp, files, log>>

\* ------------------------------------------------------------- helpers
Abs(x) == IF x < 0 THEN -x ELSE x

\* round(p / q) to the nearest integer, ties to even (q > 0)
RoundHalfEven(p, q) ==
    LET fl == p \div q
        r2 == 2 * (p - fl * q)
    IN  IF r2 < q THEN fl
        ELSE IF r2 > q THEN fl + 1
        ELSE IF fl % 2 = 0 THEN fl ELSE fl + 1

\* np.round_(c, decimals = 4) of a coefficient given in 1e-5, result in 1e-4
Round4(c) == RoundHalfEven(c, 10)

\* mutant: the count of correct rows, not divided by the number of rows
RoundScoreCount(correct, n) == RoundHalfEven(correct * 10000, 1)

\* round(correct / n, 4), in 1e-4
RoundScore(correct, n) == RoundHalfEven(correct * 10000, n)

RECURSIVE CountTrue(_)
CountTrue(mask) ==
    IF mask = <<>> THEN 0
    ELSE (IF Head(mask) THEN 1 ELSE 0) + CountTrue(Tail(mask))

RECURSIVE Flatten(_)
Flatten(m) == IF m = <<>> THEN <<>> ELSE Head(m) \o Flatten(Tail(m))

Prefix(n) == [j \in 1..n |-> j]

Range(s) == {s[j] : j \in DOMAIN s}

Injective(s) == \A j, k \in DOMAIN s : s[j] = s[k] => j = k

\* ------------------------------------------------------------- library
\* RFECV(estimator = lr, cv = 10).fit : the masks support_ can be.  At least
\* one feature is kept (min_features_to_select = 1).
Masks(n) == {m \in [1..n -> BOOLEAN] : \E j \in 1..n : m[j]}

\* mutant: the length of the mask for the number of selected features
NFeaturesAll(mask) == Len(mask)

\* rfe_cv.n_features_ is support_.sum()
NFeatures(mask) == CountTrue(mask)

\* fit raises on data it cannot use: no rows, a label frame that is not one
\* column, fewer than two classes
Usable(X, y) == X.rows > 0 /\ y.ncols = 1 /\ y.classes >= 2

\* mutant: the mask is ignored and every column kept
LocAll(cols, mask) == cols

\* df.loc[:, mask] for a boolean mask as long as the columns
RECURSIVE Loc(_, _)
Loc(cols, mask) ==
    IF cols = <<>> THEN <<>>
    ELSE (IF Head(mask) THEN <<Head(cols)>> ELSE <<>>) \o Loc(Tail(cols), Tail(mask))

\* rows of LogisticRegression.coef_ : one for two classes, one per class beyond
CoefRows(classes) == IF classes <= 2 THEN 1 ELSE classes

\* the coef_ matrices a fit on k columns can give
Coefs(k, classes) ==
    {[r \in 1..CoefRows(classes) |-> w] : w \in [1..k -> CoefValues]}

\* np.round_(lr_select.coef_.flatten(), decimals = 4)
Weights(coef) == LET f == Flatten(coef) IN [j \in DOMAIN f |-> Round4(f[j])]

\* pd.DataFrame({'Features': names, 'Weights': weights}), index 0..n-1
DataFrame(names, weights) ==
    [j \in DOMAIN names |-> [idx |-> j - 1, Features |-> names[j], Weights |-> weights[j]]]

\* mutant: the sort without .abs(), descending by signed weight
SortedIndexSigned(df) ==
    LET n == Len(df)
    IN  {[j \in 1..n |-> df[p[j]].idx] :
            p \in {q \in [1..n -> 1..n] :
                      /\ Injective(q)
                      /\ \A j \in 1..(n - 1) :
                            df[q[j]].Weights >= df[q[j + 1]].Weights}}

\* weight_df.Weights.abs().sort_values(ascending = False).index : the index
\* labels in an order of descending absolute weight.  The order among equal
\* values is not fixed by the library, so every such order is an outcome.
SortedIndex(df) ==
    LET n == Len(df)
    IN  {[j \in 1..n |-> df[p[j]].idx] :
            p \in {q \in [1..n -> 1..n] :
                      /\ Injective(q)
                      /\ \A j \in 1..(n - 1) :
                            Abs(df[q[j]].Weights) >= Abs(df[q[j + 1]].Weights)}}

\* df.reindex(index) : the rows of df in the order of the labels
Reindex(df, index) ==
    [j \in DOMAIN index |-> CHOOSE row \in Range(df) : row.idx = index[j]]

\* estimator.score(X, y) : the accuracies it can give, as correct counts
CorrectCounts(X) == 0..X.rows

\* 1 - score, an exact fraction
ErrorOf(correct, n) == [num |-> n - correct, den |-> n]

\* n_features_to_select_df.melt(id_vars = 'n_features_to_select', value_name = 'error')
Melt(d) ==
    [j \in DOMAIN d.n_features_to_select |->
        [n_features_to_select |-> d.n_features_to_select[j],
         variable |-> "Training Error", error |-> d.TrainingError[j]]]
    \o
    [j \in DOMAIN d.n_features_to_select |->
        [n_features_to_select |-> d.n_features_to_select[j],
         variable |-> "Test Error", error |-> d.TestError[j]]]

\* to_csv(index = False) : the rows without their index labels
ToCsv(df) == [j \in DOMAIN df |-> [Features |-> df[j].Features, Weights |-> df[j].Weights]]

\* ------------------------------------------------------------- the run
Models == <<"Training Accuracy - No Feature Selection",
            "Testing Accuracy - No Feature Selection",
            "Training Accuracy - Selected Features",
            "Testing Accuracy - Selected Features">>

Artifacts == <<"confusion_matrix.png", "error.png", "weights.csv", "results.csv">>

NoModel == [fitted |-> FALSE, coef_ |-> <<>>]
EmptyDict == [n_features_to_select |-> <<>>, TrainingError |-> <<>>, TestError |-> <<>>]

\* Column lists of X_test tried against the train columns 1..n: every width
\* under the same names and, for tables of at most two columns, the same
\* names reversed and the last one renamed.
TestColumns(n) ==
    {Prefix(m) : m \in 1..MaxCols}
    \cup (IF n <= 2
          THEN {[j \in 1..n |-> n + 1 - j],
                [j \in 1..n |-> IF j = n THEN MaxCols + 1 ELSE j]}
          ELSE {})

\* The state as main is entered: the four files as read_csv will return them.
Init ==
    /\ pc = "load"
    /\ err = ""
    /\ \E n \in 1..MaxCols, rtr, rte \in 0..MaxRows :
          /\ InputShape(n, rtr) /\ InputShape(n, rte)
          /\ X_train = [cols |-> Prefix(n), rows |-> rtr]
          /\ \E tc \in TestColumns(n) : X_test = [cols |-> tc, rows |-> rte]
    /\ \E c \in ClassCounts, ctr, cte \in LabelCols, rtr, rte \in 0..MaxRows :
          /\ InputShape(Len(X_train.cols), rtr) /\ InputShape(Len(X_train.cols), rte)
          /\ y_train = [ncols |-> ctr, rows |-> rtr, classes |-> c]
          /\ y_test = [ncols |-> cte, rows |-> rte, classes |-> c]
    /\ support_ = <<>>
    /\ n_features_ = 0
    /\ X_train_sel = <<>>
    /\ X_test_sel = <<>>
    /\ lr_select = NoModel
    /\ weight_df = <<>>
    /\ results = <<>>
    /\ i = 0
    /\ max_dict = EmptyDict
    /\ plot = <<>>
    /\ disp = NoModel
    /\ files = <<>>
    /\ log = <<>>

\* an uncaught exception ends the run: nothing but pc, err and the log changes
Raise(msg, events) ==
    /\ pc' = "aborted"
    /\ err' = msg
    /\ log' = log \o events
    /\ UNCHANGED <<X_train, y_train, X_test, y_test, support_, n_features_,
                   X_train_sel, X_test_sel, lr_select, weight_df, results, i,
                   max_dict, plot, disp, files>>

\* mutant: only the feature column counts are compared
LoaderCheckColumnsOnly ==
    IF Len(X_train.cols) # Len(X_test.cols) THEN "Test and train X data doesn't match"
    ELSE ""

\* the message of the first Loader assertion that fails, "" if none does
LoaderCheck ==
    IF Len(X_train.cols) # Len(X_test.cols) THEN "Test and train X data doesn't match"
    ELSE IF y_train.ncols # y_test.ncols THEN "Test and train y data doesn't match"
    ELSE IF X_train.rows # y_train.rows THEN "Train X and y files are not the same length"
    ELSE IF X_test.rows # y_test.rows THEN "Test X and y files are not the same length"
    ELSE ""

\* mutant: the files are read and none of the assertions is made
LoadUnchecked ==
    /\ pc = "load"
    /\ pc' = "feature_selection"
    /\ log' = log \o <<"read", "validated">>
    /\ UNCHANGED <<err, X_train, y_train, X_test, y_test, support_,
                   n_features_, X_train_sel, X_test_sel, lr_select,
                   weight_df, results, i, max_dict, plot, disp, files>>

\* DATA IMPORTING: the four read_csv calls and the four assertions
Load ==
    /\ pc = "load"
    /\ IF LoaderCheck # ""
       THEN Raise(LoaderCheck, <<"read">>)
       ELSE /\ pc' = "feature_selection"
            /\ log' = log \o <<"read", "validated">>
            /\ UNCHANGED <<err, X_train, y_train, X_test, y_test, support_,
                           n_features_, X_train_sel, X_test_sel, lr_select,
                           weight_df, results, i, max_dict, plot, disp, files>>

\* FEATURE SELECTION: rfe_cv.fit(X_train, y_train); it raises on data it
\* cannot use, and may raise on any (too few rows per class for ten folds)
FeatureSelection ==
    /\ pc = "feature_selection"
    /\ \/ Raise("ValueError: RFECV.fit", <<>>)
       \/ /\ Usable(X_train, y_train)
          /\ \E m \in Masks(Len(X_train.cols)) :
                /\ support_' = m
                /\ n_features_' = NFeatures(m)
          /\ pc' = "subset"
          /\ log' = Append(log, "rfe_cv.fit")
          /\ UNCHANGED <<err, X_train, y_train, X_test, y_test, X_train_sel,
                         X_test_sel, lr_select, weight_df, results, i, max_dict,
                         plot, disp, files>>

\* the message the subsetting ends with, "" if it goes through
SubsetCheck(train_sel, test_sel) ==
    IF Len(train_sel) # Len(test_sel)
    THEN "Not applying RFE to both train and test sets" ELSE ""

\* MODEL BUILDING, subsetting: X.loc[:, rfe_cv.support_] on both tables,
\* then the assertion on their widths
Subset ==
    /\ pc = "subset"
    /\ IF Len(support_) # Len(X_train.cols) \/ Len(support_) # Len(X_test.cols)
       THEN Raise("IndexError: Boolean index has wrong length", <<>>)
       ELSE LET train_sel == Loc(X_train.cols, support_)
                test_sel == Loc(X_test.cols, support_)
            IN  IF SubsetCheck(train_sel, test_sel) # ""
                THEN Raise(SubsetCheck(train_sel, test_sel), <<>>)
                ELSE /\ X_train_sel' = train_sel
                     /\ X_test_sel' = test_sel
                     /\ pc' = "fit"
                     /\ log' = Append(log, "subset")
                     /\ UNCHANGED <<err, X_train, y_train, X_test, y_test,
                                    support_, n_features_, lr_select, weight_df,
                                    results, i, max_dict, plot, disp, files>>

\* lr_normal.fit(X_train, y_train); lr_select.fit(X_train_sel, y_train)
FitModels ==
    /\ pc = "fit"
    /\ \E c \in Coefs(Len(X_train_sel), y_train.classes) :
          lr_select' = [fitted |-> TRUE, coef_ |-> c]
    /\ pc' = "weights"
    /\ log' = log \o <<"lr_normal.fit", "lr_select.fit">>
    /\ UNCHANGED <<err, X_train, y_train, X_test, y_test, support_, n_features_,
                   X_train_sel, X_test_sel, weight_df, results, i, max_dict,
                   plot, disp, files>>

\* the frame of selected features and weights, reordered by absolute weight
WeightTable ==
    /\ pc = "weights"
    /\ LET feature_names == X_train_sel
           weights == Weights(lr_select.coef_)
       IN  IF Len(feature_names) # Len(weights)
           THEN Raise("ValueError: arrays must all be same length", <<>>)
           ELSE /\ \E index \in SortedIndex(DataFrame(feature_names, weights)) :
                      weight_df' = Reindex(DataFrame(feature_names, weights), index)
                /\ pc' = "scores"
                /\ log' = Append(log, "weight_df")
                /\ UNCHANGED <<err, X_train, y_train, X_test, y_test, support_,
                               n_features_, X_train_sel, X_test_sel, lr_select,
                               results, i, max_dict, plot, disp, files>>

\* pd.DataFrame({'Model' : models, 'Score' : scores})
ResultsFrame(models, scores) ==
    [j \in DOMAIN models |-> [Model |-> models[j], Score |-> scores[j]]]

\* mutant: the scores are taken and the sweep starts at once, the assertions
\* on the two tables left out
ScoresUnchecked ==
    /\ pc = "scores"
    /\ X_test.rows > 0
    /\ \E a, c \in CorrectCounts(X_train), b, d \in CorrectCounts(X_test) :
          results' = ResultsFrame(Models,
              <<RoundScore(a, X_train.rows), RoundScore(b, X_test.rows),
                RoundScore(c, X_train.rows), RoundScore(d, X_test.rows)>>)
    /\ max_dict' = EmptyDict
    /\ i' = 1
    /\ pc' = "sweep"
    /\ log' = Append(log, "results")
    /\ UNCHANGED <<err, X_train, y_train, X_test, y_test, support_,
                   n_features_, X_train_sel, X_test_sel, lr_select,
                   weight_df, plot, disp, files>>

\* the four rounded accuracies and the results frame; predicting on a table
\* without rows raises
Scores ==
    /\ pc = "scores"
    /\ IF X_test.rows = 0
       THEN Raise("ValueError: Found array with 0 sample(s)", <<>>)
       ELSE /\ \E a, c \in CorrectCounts(X_train), b, d \in CorrectCounts(X_test) :
                  LET train_score == RoundScore(a, X_train.rows)
                      test_score == RoundScore(b, X_test.rows)
                      train_sel_score == RoundScore(c, X_train.rows)
                      test_sel_score == RoundScore(d, X_test.rows)
                  IN  results' = ResultsFrame(Models,
                          <<train_score, test_score, train_sel_score, test_sel_score>>)
            /\ pc' = "checks"
            /\ log' = Append(log, "results")
            /\ UNCHANGED <<err, X_train, y_train, X_test, y_test, support_,
                           n_features_, X_train_sel, X_test_sel, lr_select,
                           weight_df, i, max_dict, plot, disp, files>>

\* df.shape[1] of a frame with rows: the fields of a row, its index label aside
Width(df) == Cardinality(DOMAIN df[1] \ {"idx"})

\* the message of the first assertion on the two tables that fails, "" if
\* none does
TableCheck ==
    IF Len(results) # 4 THEN "Results is not the right length"
    ELSE IF Width(results) # 2 THEN "Results is not the right width"
    ELSE IF Len(weight_df) # n_features_ THEN "Weights is not the right length"
    ELSE IF Width(weight_df) # 2 THEN "Weights is not the right width"
    ELSE ""

\* the four assertions on results and weight_df, then max_dict is set up
PostChecks ==
    /\ pc = "checks"
    /\ IF TableCheck # ""
       THEN Raise(TableCheck, <<>>)
       ELSE /\ max_dict' = EmptyDict
            /\ i' = 1
            /\ pc' = "sweep"
            /\ log' = Append(log, "checked")
            /\ UNCHANGED <<err, X_train, y_train, X_test, y_test, support_,
                           n_features_, X_train_sel, X_test_sel, lr_select,
                           weight_df, results, plot, disp, files>>

\* mutant: the loop runs up to and including the column count
InRangeInclusive(k) == k <= Len(X_train.cols)

\* range(1, len(X_train.columns)) : whether the loop has another value
InRange(k) == k < Len(X_train.cols)

\* mutant: the sweep fits lr_select itself, on the first i columns, in place
\* of a fresh estimator
SweepStepRefit ==
    /\ pc = "sweep"
    /\ InRange(i)
    /\ \E a \in CorrectCounts(X_train), b \in CorrectCounts(X_test) :
          max_dict' =
            [n_features_to_select |-> Append(max_dict.n_features_to_select, i),
             TrainingError |-> Append(max_dict.TrainingError, ErrorOf(a, X_train.rows)),
             TestError |-> Append(max_dict.TestError, ErrorOf(b, X_test.rows))]
    /\ \E c \in Coefs(i, y_train.classes) : lr_select' = [fitted |-> TRUE, coef_ |-> c]
    /\ i' = i + 1
    /\ log' = Append(log, "rfe.fit")
    /\ UNCHANGED <<pc, err, X_train, y_train, X_test, y_test, support_,
                   n_features_, X_train_sel, X_test_sel, weight_df,
                   results, plot, disp, files>>

\* one iteration of the sweep: a fresh RFE of i features, its two errors
SweepStep ==
    /\ pc = "sweep"
    /\ InRange(i)
    /\ \E a \in CorrectCounts(X_train), b \in CorrectCounts(X_test) :
          max_dict' =
            [n_features_to_select |-> Append(max_dict.n_features_to_select, i),
             TrainingError |-> Append(max_dict.TrainingError, ErrorOf(a, X_train.rows)),
             TestError |-> Append(max_dict.TestError, ErrorOf(b, X_test.rows))]
    /\ i' = i + 1
    /\ log' = Append(log, "rfe.fit")
    /\ UNCHANGED <<pc, err, X_train, y_train, X_test, y_test, support_,
                   n_features_, X_train_sel, X_test_sel, lr_select, weight_df,
                   results, plot, disp, files>>

\* the loop is over: the melted frame and chart, then the confusion matrix
\* of lr_select on X_test_sel
Plot ==
    /\ pc = "sweep"
    /\ ~InRange(i)
    /\ plot' = Melt(max_dict)
    /\ disp' = [fitted |-> lr_select.fitted, coef_ |-> lr_select.coef_, cols |-> X_test_sel]
    /\ pc' = "print"
    /\ log' = log \o <<"plot", "confusion_matrix">>
    /\ UNCHANGED <<err, X_train, y_train, X_test, y_test, support_, n_features_,
                   X_train_sel, X_test_sel, lr_select, weight_df, results, i,
                   max_dict, files>>

\* what the k-th write of PRINT FILES puts on disk
Content(k) ==
    IF k = 1 THEN disp
    ELSE IF k = 2 THEN plot
    ELSE IF k = 3 THEN ToCsv(weight_df)
    ELSE results

\* PRINT FILES: the next of the four writes
WriteFile ==
    /\ pc = "print"
    /\ LET k == Len(files) + 1
       IN  /\ files' = Append(files, [name |-> Artifacts[k], content |-> Content(k)])
           /\ pc' = IF k = Len(Artifacts) THEN "done" ELSE "print"
           /\ log' = Append(log, "write")
    /\ UNCHANGED <<err, X_train, y_train, X_test, y_test, support_, n_features_,
                   X_train_sel, X_test_sel, lr_select, weight_df, results, i,
                   max_dict, plot, disp>>

Next ==
    \/ Load
    \/ FeatureSelection
    \/ Subset
    \/ FitModels
    \/ WeightTable
    \/ Scores
    \/ PostChecks
    \/ SweepStep
    \/ Plot
    \/ WriteFile

Spec == Init /\ [][Next]_vars

\* ------------------------------------------------------------- claims
Passed(event) == \E j \in DOMAIN log : log[j] = event

FitEvents == {"rfe_cv.fit", "lr_normal.fit", "lr_select.fit", "rfe.fit"}

\* one of the four Loader checks fails on the input
InputViolatesLoader ==
    \/ Len(X_train.cols) # Len(X_test.cols)
    \/ y_train.ncols # y_test.ncols
    \/ X_train.rows # y_train.rows
    \/ X_test.rows # y_test.rows

AssertionMessages ==
    {"Test and train X data doesn't match",
     "Test and train y data doesn't match",
     "Train X and y files are not the same length",
     "Test X and y files are not the same length",
     "Not applying RFE to both train and test sets",
     "Results is not the right length",
     "Results is not the right width",
     "Weights is not the right length",
     "Weights is not the right width"}

\* C1: in a run whose input fails one of the four Loader checks no model is
\* ever fitted (no RFECV, LogisticRegression or RFE fit), and once main has
\* moved the run is aborted with an assertion message.
C1_NoFitOnBadInput ==
    InputViolatesLoader =>
        /\ \A j \in DOMAIN log : log[j] \notin FitEvents
        /\ ~lr_select.fitted /\ support_ = <<>>
        /\ pc \in {"load", "aborted"}
        /\ pc = "aborted" => err \in AssertionMessages

\* a run with equal column counts but unequal train row counts has aborted
C1_Witness ==
    /\ pc = "aborted"
    /\ Len(X_train.cols) = Len(X_test.cols) /\ y_train.ncols = y_test.ncols
    /\ X_train.rows # y_train.rows
    /\ err = "Train X and y files are not the same length"

\* C2: a run that ended on a failed assertion has written none of the four
\* artifacts, and an artifact is on disk only when every assertion of main
\* has passed on the state it was made about.
C2_NoArtifactOnAssertion ==
    /\ err \in AssertionMessages => files = <<>>
    /\ files # <<>> =>
          /\ ~InputViolatesLoader
          /\ Len(X_train_sel) = Len(X_test_sel)
          /\ Len(results) = 4 /\ Width(results) = 2
          /\ Len(weight_df) = n_features_ /\ Width(weight_df) = 2
          /\ err = ""

\* an assertion has failed, and elsewhere artifacts get written
C2_Witness ==
    /\ pc = "aborted"
    /\ err = "Test X and y files are not the same length"
    /\ files = <<>>

\* C3: once the weight table is built it has as many rows as support_ has
\* True entries and two columns, and the run never ends on one of the two
\* assertions about the weight table.
C3_WeightRows ==
    /\ Passed("weight_df") =>
          /\ Len(weight_df) = CountTrue(support_)
          /\ \A j \in DOMAIN weight_df :
                DOMAIN weight_df[j] \ {"idx"} = {"Features", "Weights"}
    /\ err \notin {"Weights is not the right length", "Weights is not the right width"}

\* the post-condition checks have passed on a mask that drops a column
C3_Witness ==
    /\ Passed("checked")
    /\ Len(weight_df) = 2
    /\ Len(support_) = 3

\* C4: once built, results has four rows of two columns, labelled in the
\* order train-full, test-full, train-selected, test-selected, each score in
\* [0,1] and a rounded multiple of 1/rows of the table it was scored on.
C4_ScoreReport ==
    Passed("results") =>
        /\ Len(results) = 4
        /\ \A j \in 1..4 : DOMAIN results[j] = {"Model", "Score"}
        /\ results[1].Model = "Training Accuracy - No Feature Selection"
        /\ results[2].Model = "Testing Accuracy - No Feature Selection"
        /\ results[3].Model = "Training Accuracy - Selected Features"
        /\ results[4].Model = "Testing Accuracy - Selected Features"
        /\ \A j \in 1..4 : results[j].Score \in 0..10000
        /\ \A j \in {1, 3} : \E c \in 0..X_train.rows :
              results[j].Score * X_train.rows - c * 10000 \in -(X_train.rows)..X_train.rows
        /\ \A j \in {2, 4} : \E c \in 0..X_test.rows :
              results[j].Score * X_test.rows - c * 10000 \in -(X_test.rows)..X_test.rows

\* a finished run whose test accuracies are 0.5 and 1 and train accuracy 0
C4_Witness ==
    /\ pc = "done"
    /\ results[1].Score = 0
    /\ results[2].Score = 5000
    /\ results[4].Score = 10000

\* C5: with N feature columns the sweep leaves N-1 entries, for the feature
\* counts 1..N-1 in ascending order, each with a training and a test error
\* in [0,1]; during the sweep the entries are those of the counts below i;
\* the melted frame has one row per entry and error type.
C5_ErrorCurve ==
    LET N == Len(X_train.cols)
        counts == max_dict.n_features_to_select
        InUnit(e) == e.den > 0 /\ 0 <= e.num /\ e.num <= e.den
    IN  /\ Len(max_dict.TrainingError) = Len(counts)
        /\ Len(max_dict.TestError) = Len(counts)
        /\ \A j \in DOMAIN counts :
              counts[j] = j /\ InUnit(max_dict.TrainingError[j]) /\ InUnit(max_dict.TestError[j])
        /\ Len(counts) <= N - 1
        /\ pc = "sweep" => Len(counts) = i - 1
        /\ pc \in {"print", "done"} =>
              /\ Len(counts) = N - 1
              /\ Len(plot) = 2 * (N - 1)
              /\ \A k \in 1..(N - 1) : \A v \in {"Training Error", "Test Error"} :
                    Cardinality({j \in DOMAIN plot :
                        plot[j].n_features_to_select = k /\ plot[j].variable = v}) = 1

\* a finished run over three feature columns, with errors 0 and 1 on the curve
C5_Witness ==
    /\ pc = "done"
    /\ Len(X_train.cols) = 3
    /\ max_dict.n_features_to_select = <<1, 2>>
    /\ max_dict.TrainingError[1].num = 0
    /\ max_dict.TestError[2].num = max_dict.TestError[2].den

\* C6: the weight table is in descending order of absolute weight, its rows
\* are the selected features each once, and each row holds a selected
\* feature's name with the rounded coefficient fitted for that feature.
C6_WeightOrder ==
    Passed("weight_df") =>
        LET k == Len(X_train_sel)
        IN  /\ Len(weight_df) = k
            /\ \A j \in 1..(k - 1) :
                  Abs(weight_df[j].Weights) >= Abs(weight_df[j + 1].Weights)
            /\ {weight_df[j].idx : j \in 1..k} = 0..(k - 1)
            /\ \A j \in 1..k :
                  /\ weight_df[j].Features = X_train_sel[weight_df[j].idx + 1]
                  /\ weight_df[j].Weights = Round4(lr_select.coef_[1][weight_df[j].idx + 1])

\* a table the reordering has changed: the second selected feature, with a
\* negative weight, stands above the first
C6_Witness ==
    /\ Passed("weight_df")
    /\ Len(weight_df) >= 2
    /\ weight_df[1].idx = 1
    /\ weight_df[1].Weights < 0
    /\ Abs(weight_df[1].Weights) > Abs(weight_df[2].Weights)

\* C7: in a run that has passed the Loader's checks the train and test
\* tables have the same columns, and the mask selects the same names from
\* both.
C7_SameColumns ==
    Passed("subset") =>
        /\ Range(X_train.cols) = Range(X_test.cols)
        /\ X_train_sel = X_test_sel

\* C8: after the RFECV fit the mask is as long as the feature columns are
\* many; the subsetting leaves as many columns in the train table as in the
\* test table, as many as the mask has True entries; and the run never ends
\* on the assertion about the subsetting.
C8_MaskLength ==
    /\ Passed("rfe_cv.fit") =>
          /\ Len(support_) = Len(X_train.cols)
          /\ n_features_ = CountTrue(support_)
    /\ Passed("subset") =>
          /\ Len(X_train_sel) = CountTrue(support_)
          /\ Len(X_test_sel) = CountTrue(support_)
    /\ err \notin {"Not applying RFE to both train and test sets",
                   "IndexError: Boolean index has wrong length"}

\* the subsetting has gone through with a mask that drops a column
C8_Witness ==
    /\ pc = "fit"
    /\ Len(support_) = 3
    /\ CountTrue(support_) = 2
    /\ Len(X_test_sel) = 2

\* the stage an event of the run belongs to
StageOf(e) ==
    IF e \in {"read", "validated"} THEN 1
    ELSE IF e = "rfe_cv.fit" THEN 2
    ELSE IF e \in {"subset", "lr_normal.fit", "lr_select.fit", "weight_df",
                   "results", "checked"} THEN 3
    ELSE 4

\* the events of a run that goes through, for n feature columns
FullRun(n) ==
    <<"read", "validated", "rfe_cv.fit", "subset", "lr_normal.fit", "lr_select.fit",
      "weight_df", "results", "checked">>
    \o [j \in 1..(n - 1) |-> "rfe.fit"]
    \o <<"plot", "confusion_matrix", "write", "write", "write", "write">>

\* C9: the events of a run are in the order of the stages Loader, Feature
\* Selector, Model Comparator, Reporter, no stage entered again after a
\* later one: they are the first events of read, validate, RFECV fit,
\* subsetting, the two comparison fits, the weight table, the scores, the
\* checks of the tables, the N-1 fits of the sweep, the chart, the confusion
\* matrix and the four writes, in this order; and the artifacts on disk are
\* as many as the writes made.
C9_StageOrder ==
    LET full == FullRun(Len(X_train.cols))
    IN  /\ Len(log) <= Len(full)
        /\ \A j \in DOMAIN log : log[j] = full[j]
        /\ \A j \in 1..(Len(log) - 1) : StageOf(log[j]) <= StageOf(log[j + 1])
        /\ Len(files) = Cardinality({j \in DOMAIN log : log[j] = "write"})
        /\ pc = "done" => log = full

\* a finished run with two fits in the sweep and four writes
C9_Witness ==
    /\ pc = "done"
    /\ Cardinality({j \in DOMAIN log : log[j] = "rfe.fit"}) = 2
    /\ Len(files) = 4

\* C10: from the scoring on, no step (and so no iteration of the sweep)
\* changes the mask, lr_select, the projected tables, results or weight_df;
\* the confusion matrix is drawn from lr_select on X_test_sel, and the two
\* written tables are weight_df and results.
C10_SweepFrame ==
    [][/\ Passed("results") =>
            UNCHANGED <<support_, n_features_, lr_select, X_train_sel, X_test_sel,
                        results, weight_df>>
       /\ pc' \in {"print", "done"} =>
            /\ disp'.coef_ = lr_select'.coef_
            /\ disp'.cols = X_test_sel'
       /\ pc' = "done" =>
            /\ files'[1].content = disp'
            /\ files'[3].content = ToCsv(weight_df')
            /\ files'[4].content = results']_vars

\* a finished run whose sweep made two iterations
C10_Witness ==
    /\ pc = "done"
    /\ Len(max_dict.n_features_to_select) = 2
    /\ Len(files[3].content) = 2
====
